---- MODULE Spec2Model ----
(***************************************************************************)
(* State machine of the f1-eventlogger session tracker.                    *)
(*                                                                         *)
(* Two implementations live in the repository and both are modelled over   *)
(* the same state variables:                                               *)
(*   - src/session.rs : struct SessionState and its methods (Spec,         *)
(*                      CorrelatorSpec, ReportSpec);                       *)
(*   - src/main.rs    : the packet loop of main with its inline handling   *)
(*                      of every packet kind (MainSpec).                   *)
(*                                                                         *)
(* The file system is part of the state: `files` maps a file name to the   *)
(* rows that reached the disk, and a csv::Writer is a file name plus the   *)
(* rows still held in its buffer.  csv::Writer::from_path creates or       *)
(* truncates the file, write_record appends to the buffer, flush moves the *)
(* buffer to the file, and dropping a writer flushes it and closes it.     *)
(***************************************************************************)
EXTENDS Integers, Sequences, FiniteSets, TLC

VARIABLES
    session_info,   \* Option<PacketSessionData>
    session_uid,    \* u64 (last_session_uid in main.rs)
    cars,           \* Vec<ParticipantData>
    car_status,     \* Vec<CarStatusData>
    lap_data,       \* Vec<LapData>
    car_speeds,     \* Vec<u16>
    csv_writer,     \* Option<csv::Writer<fs::File>>
    files,          \* file name -> rows on disk
    running         \* position of main's loop: "running", "returned", "panicked"

vars == <<session_info, session_uid, cars, car_status, lap_data, car_speeds,
          csv_writer, files, running>>

(***************************************************************************)
(* Bounds and program constants.                                           *)
(***************************************************************************)
MaxCars == 2
MaxUid == 2
MaxRows == 1
U8_MAX == 255
U16_MAX == 65535
U64_MIN == 0

\* Option<T>: None is the empty sequence and Some(x) the sequence of x alone.
None == <<>>
Some(x) == <<x>>
IsSome(o) == o # <<>>
Unwrap(o) == o[1]
UnwrapOr(o, default) == IF o = <<>> THEN default ELSE o[1]

VehicleIdx == 0..MaxCars
Uids == 0..MaxUid

(***************************************************************************)
(* Packet contents.  A packet of n vehicles lists the entries of the       *)
(* indices 0..n-1.                                                         *)
(***************************************************************************)
DriverName(i) == CASE i = 0 -> "A" [] i = 1 -> "B" [] OTHER -> "C"
TeamName(i) == CASE i = 0 -> "Red" [] i = 1 -> "Blue" [] OTHER -> "Green"
Compound(i) == CASE i = 0 -> "Soft" [] i = 1 -> "Medium" [] OTHER -> "Hard"

ParticipantData(i) == [name |-> DriverName(i), team |-> TeamName(i), race_number |-> i + 1]
CarStatusData(i) ==
    [visual_tyre_compound |-> Compound(i),
     tyre_age_laps |-> CASE i = 0 -> Some(3) [] i = 1 -> Some(5) [] OTHER -> None]
\* lap_distance is an f32 in metres; it is kept here in tenths of a metre.
LapData(i) ==
    [car_position |-> i + 1, current_lap_num |-> 10,
     lap_distance |-> CASE i = 0 -> 1205 [] i = 1 -> 1000 [] OTHER -> -37]
CarTelemetryData(i) == [speed |-> 210 - 5 * i]

ParticipantsPackets == {[i \in 1..n |-> ParticipantData(i - 1)] : n \in 0..MaxCars}
CarStatusPackets == {[i \in 1..n |-> CarStatusData(i - 1)] : n \in 0..MaxCars}
LapDataPackets == {[i \in 1..n |-> LapData(i - 1)] : n \in 0..MaxCars}
CarTelemetryPackets == {[i \in 1..n |-> CarTelemetryData(i - 1)] : n \in 0..MaxCars}

SessionKinds ==
    {[rule_set |-> "Race", session_type |-> "Race"],
     [rule_set |-> "PracticeAndQualifying", session_type |-> "ShortQualifying"]}
PacketSessionData ==
    {[session_uid |-> u, rule_set |-> k.rule_set, session_type |-> k.session_type,
      track |-> "Monza"] : u \in Uids, k \in SessionKinds}

SessionTimes == {905000}
Overtakes ==
    {[event |-> "Overtake", overtaking_vehicle_idx |-> a, being_overtaken_vehicle_idx |-> b,
      session_time |-> t] : a \in VehicleIdx, b \in VehicleIdx, t \in SessionTimes}
OtherEvents ==
    {[event |-> "FastestLap", overtaking_vehicle_idx |-> 0, being_overtaken_vehicle_idx |-> 0,
      session_time |-> t] : t \in SessionTimes}
PacketEventData == Overtakes \cup OtherEvents

\* final_classifications is indexed by vehicle: the vehicle of index i finished
\* in position MaxCars - i.  The payload holds MaxCars entries, and the count
\* it declares can be smaller or larger than that.
ClassificationData(i) ==
    [position |-> MaxCars - i, grid_position |-> i + 1,
     best_lap_time |-> 81000 + i, total_race_time |-> 5400000 + 1000 * i,
     num_laps |-> 53, num_pit_stops |-> i, num_penalties |-> 0, penalties_time |-> 0,
     result_status |-> IF i = 0 THEN "Finished" ELSE "DidNotFinish"]
PacketFinalClassificationData ==
    {[session_uid |-> u, num_cars |-> n,
      final_classifications |-> [i \in 1..MaxCars |-> ClassificationData(i - 1)]] :
        u \in Uids, n \in 0..(MaxCars + 1)}

IoOutcomes == {"ok", "fail"}

(***************************************************************************)
(* Vec::get, the file system and csv::Writer.                              *)
(***************************************************************************)
Get(vec, idx) == IF idx + 1 <= Len(vec) THEN Some(vec[idx + 1]) ELSE None

\* `value as u16` of an f32 given in tenths: truncation toward zero, saturating.
F32AsU16(tenths) ==
    IF tenths <= 0 THEN 0
    ELSE IF tenths \div 10 > U16_MAX THEN U16_MAX
    ELSE tenths \div 10

OVERTAKE_CSV_HEADERS ==
    <<"Overtaker", "Overtaker Team", "Overtaker Speed", "Overtaker Tyre Compound",
      "Overtaker Tyre Age", "Overtakee", "Overtakee Team", "Overtakee Speed",
      "Overtakee Tyre Compound", "Overtakee Tyre Age", "For Position", "Lap",
      "Track Position", "Sessiontime [ms]">>

CLASSIFICATION_CSV_HEADERS ==
    <<"Position", "Driver", "Team", "Grid Position", "Fastest Lap Time [ms]",
      "Finish Time [ms]", "Laps", "Pitstops", "Penalties", "Penalty Time [s]", "Status">>

\* File::create: the file exists afterwards and is empty.
FileCreate(fs, name) ==
    [n \in DOMAIN fs \cup {name} |-> IF n = name THEN <<>> ELSE fs[n]]

\* csv::Writer::flush: the buffered rows reach the file.  The write can fail only
\* when there is something to write; a failed flush keeps the buffer.
WriterFlush(w, fs, io) ==
    IF w.buf = <<>> \/ io = "ok"
    THEN [ok |-> TRUE, writer |-> [w EXCEPT !.buf = <<>>],
          files |-> [fs EXCEPT ![w.name] = @ \o w.buf]]
    ELSE [ok |-> FALSE, writer |-> w, files |-> fs]

\* Drop of a csv::Writer: a flush whose error is ignored.
WriterDrop(w, fs, io) == WriterFlush(w, fs, io).files

WriterWriteRecord(w, row) == [w EXCEPT !.buf = Append(@, row)]

(***************************************************************************)
(* src/session.rs : SessionState.  Every method is an operator that gives  *)
(* the state it leaves (`st`), the value it returns (`result`) and, in     *)
(* program order, what it did to the sinks (`events`).                     *)
(***************************************************************************)
State ==
    [session_info |-> session_info, session_uid |-> session_uid, cars |-> cars,
     car_status |-> car_status, lap_data |-> lap_data, car_speeds |-> car_speeds,
     csv_writer |-> csv_writer, files |-> files]

Outcome(st, result, events) == [st |-> st, result |-> result, events |-> events]

new ==
    [session_info |-> None, session_uid |-> U64_MIN, cars |-> <<>>, car_status |-> <<>>,
     lap_data |-> <<>>, car_speeds |-> <<>>, csv_writer |-> None, files |-> <<>>]

is_logging_enabled == IsSome(csv_writer)

\* "{track} {session type} {event type}_{session uid}.csv"
FileName(session_data, event_type) ==
    session_data.track \o " " \o session_data.session_type \o " " \o event_type
        \o "_" \o ToString(session_data.session_uid) \o ".csv"

\* format!("{} ({})", team.name(), race_number)
FormatTeam(car) == car.team \o " (" \o ToString(car.race_number) \o ")"

\* csv::Writer::from_path, then the header row goes to the writer's buffer.
create_new_csv_writer(session_data, event_type, headers, fs, io) ==
    IF io = "fail"
    THEN [ok |-> FALSE, writer |-> None, files |-> fs]
    ELSE [ok |-> TRUE,
          writer |-> Some([name |-> FileName(session_data, event_type), buf |-> <<headers>>]),
          files |-> FileCreate(fs, FileName(session_data, event_type))]

\* update_session without the comparison of identifiers: every announcement
\* is taken for a new session.
update_session_rotates_always(session_data, io_flush, io_create) ==
    LET flushed ==
            IF IsSome(csv_writer)
            THEN WriterFlush(Unwrap(csv_writer), files, io_flush)
            ELSE [ok |-> TRUE, writer |-> None, files |-> files]
        created ==
            create_new_csv_writer(session_data, "Events", OVERTAKE_CSV_HEADERS,
                                  flushed.files, io_create)
    IN
    IF ~flushed.ok THEN Outcome(State, "IoError", <<>>)
    ELSE IF session_data.rule_set = "Race" /\ created.ok
    THEN Outcome([State EXCEPT !.session_uid = session_data.session_uid,
                               !.csv_writer = created.writer,
                               !.files = created.files,
                               !.session_info = Some(session_data)],
                 "Ok", <<<<"open", Unwrap(created.writer).name>>>>)
    ELSE Outcome([State EXCEPT !.session_uid = session_data.session_uid,
                               !.csv_writer = None,
                               !.files = flushed.files,
                               !.session_info = Some(session_data)],
                 "Ok", <<>>)

update_session(session_data, io_flush, io_create) ==
    IF session_uid # session_data.session_uid
    THEN
        LET flushed ==
                IF IsSome(csv_writer)
                THEN WriterFlush(Unwrap(csv_writer), files, io_flush)
                ELSE [ok |-> TRUE, writer |-> None, files |-> files]
            old == IF IsSome(csv_writer) THEN Some(flushed.writer) ELSE None
            ev_flush ==
                IF IsSome(csv_writer) THEN <<<<"flush", Unwrap(csv_writer).name>>>> ELSE <<>>
            ev_close ==
                IF IsSome(csv_writer) THEN <<<<"close", Unwrap(csv_writer).name>>>> ELSE <<>>
            created ==
                create_new_csv_writer(session_data, "Events", OVERTAKE_CSV_HEADERS,
                                      flushed.files, io_create)
        IN
        IF ~flushed.ok
        THEN \* writer.flush()? returns before anything is assigned
             Outcome(State, "IoError", <<>>)
        ELSE IF session_data.rule_set = "Race"
        THEN
            IF ~created.ok
            THEN \* create_new_csv_writer(..)? returns before csv_writer is assigned
                 Outcome([State EXCEPT !.session_uid = session_data.session_uid,
                                       !.csv_writer = old,
                                       !.files = flushed.files],
                         "IoError", ev_flush)
            ELSE \* the assignment drops the previous writer once the new one exists
                 Outcome([State EXCEPT !.session_uid = session_data.session_uid,
                                       !.csv_writer = created.writer,
                                       !.files = created.files,
                                       !.session_info = Some(session_data)],
                         "Ok",
                         ev_flush \o <<<<"open", Unwrap(created.writer).name>>>> \o ev_close)
        ELSE
            Outcome([State EXCEPT !.session_uid = session_data.session_uid,
                                  !.csv_writer = None,
                                  !.files = flushed.files,
                                  !.session_info = Some(session_data)],
                    "Ok", ev_flush \o ev_close)
    ELSE Outcome([State EXCEPT !.session_info = Some(session_data)], "Ok", <<>>)

Ok(value) == [ok |-> TRUE, err |-> "", value |-> Some(value)]
Err(msg) == [ok |-> FALSE, err |-> msg, value |-> None]

\* create_overtake_event that fills in a default for a missing status.
create_overtake_event_defaults_status(ot, session_time) ==
    LET overtaker == Get(cars, ot.overtaking_vehicle_idx)
        overtakee == Get(cars, ot.being_overtaken_vehicle_idx)
        lap == Get(lap_data, ot.being_overtaken_vehicle_idx)
        status(idx) ==
            UnwrapOr(Get(car_status, idx),
                     [visual_tyre_compound |-> "Unknown", tyre_age_laps |-> None])
        get_speed(idx) == UnwrapOr(Get(car_speeds, idx), 0)
    IN
    IF overtaker = None THEN Err("Car data not found")
    ELSE IF overtakee = None THEN Err("Car data not found")
    ELSE IF lap = None THEN Err("Lap data not found")
    ELSE Ok([overtaker_name |-> Unwrap(overtaker).name,
             overtaker_team |-> FormatTeam(Unwrap(overtaker)),
             overtaker_speed |-> get_speed(ot.overtaking_vehicle_idx),
             overtaker_tyre_compound |-> status(ot.overtaking_vehicle_idx).visual_tyre_compound,
             overtaker_tyre_age |->
                 UnwrapOr(status(ot.overtaking_vehicle_idx).tyre_age_laps, U8_MAX),
             overtakee_name |-> Unwrap(overtakee).name,
             overtakee_team |-> FormatTeam(Unwrap(overtakee)),
             overtakee_speed |-> get_speed(ot.being_overtaken_vehicle_idx),
             overtakee_tyre_compound |->
                 status(ot.being_overtaken_vehicle_idx).visual_tyre_compound,
             overtakee_tyre_age |->
                 UnwrapOr(status(ot.being_overtaken_vehicle_idx).tyre_age_laps, U8_MAX),
             for_pos |-> Unwrap(lap).car_position,
             lap |-> Unwrap(lap).current_lap_num,
             track_position |-> F32AsU16(Unwrap(lap).lap_distance),
             time_secs |-> session_time])

\* create_overtake_event that takes the lap progress of the overtaking vehicle.
create_overtake_event_lap_of_overtaker(ot, session_time) ==
    LET overtaker == Get(cars, ot.overtaking_vehicle_idx)
        overtaker_status == Get(car_status, ot.overtaking_vehicle_idx)
        overtakee == Get(cars, ot.being_overtaken_vehicle_idx)
        overtakee_status == Get(car_status, ot.being_overtaken_vehicle_idx)
        lap == Get(lap_data, ot.overtaking_vehicle_idx)
        get_speed(idx) == UnwrapOr(Get(car_speeds, idx), 0)
    IN
    IF overtaker = None THEN Err("Car data not found")
    ELSE IF overtaker_status = None THEN Err("Car status not found")
    ELSE IF overtakee = None THEN Err("Car data not found")
    ELSE IF overtakee_status = None THEN Err("Car status not found")
    ELSE IF lap = None THEN Err("Lap data not found")
    ELSE Ok([overtaker_name |-> Unwrap(overtaker).name,
             overtaker_team |-> FormatTeam(Unwrap(overtaker)),
             overtaker_speed |-> get_speed(ot.overtaking_vehicle_idx),
             overtaker_tyre_compound |-> Unwrap(overtaker_status).visual_tyre_compound,
             overtaker_tyre_age |-> UnwrapOr(Unwrap(overtaker_status).tyre_age_laps, U8_MAX),
             overtakee_name |-> Unwrap(overtakee).name,
             overtakee_team |-> FormatTeam(Unwrap(overtakee)),
             overtakee_speed |-> get_speed(ot.being_overtaken_vehicle_idx),
             overtakee_tyre_compound |-> Unwrap(overtakee_status).visual_tyre_compound,
             overtakee_tyre_age |-> UnwrapOr(Unwrap(overtakee_status).tyre_age_laps, U8_MAX),
             for_pos |-> Unwrap(lap).car_position,
             lap |-> Unwrap(lap).current_lap_num,
             track_position |-> F32AsU16(Unwrap(lap).lap_distance),
             time_secs |-> session_time])

\* create_overtake_event that treats a missing speed like the other misses.
create_overtake_event_requires_speed(ot, session_time) ==
    LET overtaker == Get(cars, ot.overtaking_vehicle_idx)
        overtaker_status == Get(car_status, ot.overtaking_vehicle_idx)
        overtakee == Get(cars, ot.being_overtaken_vehicle_idx)
        overtakee_status == Get(car_status, ot.being_overtaken_vehicle_idx)
        lap == Get(lap_data, ot.being_overtaken_vehicle_idx)
        overtaker_speed == Get(car_speeds, ot.overtaking_vehicle_idx)
        overtakee_speed == Get(car_speeds, ot.being_overtaken_vehicle_idx)
    IN
    IF overtaker = None THEN Err("Car data not found")
    ELSE IF overtaker_status = None THEN Err("Car status not found")
    ELSE IF overtakee = None THEN Err("Car data not found")
    ELSE IF overtakee_status = None THEN Err("Car status not found")
    ELSE IF lap = None THEN Err("Lap data not found")
    ELSE IF overtaker_speed = None \/ overtakee_speed = None THEN Err("Car speed not found")
    ELSE Ok([overtaker_name |-> Unwrap(overtaker).name,
             overtaker_team |-> FormatTeam(Unwrap(overtaker)),
             overtaker_speed |-> Unwrap(overtaker_speed),
             overtaker_tyre_compound |-> Unwrap(overtaker_status).visual_tyre_compound,
             overtaker_tyre_age |-> UnwrapOr(Unwrap(overtaker_status).tyre_age_laps, U8_MAX),
             overtakee_name |-> Unwrap(overtakee).name,
             overtakee_team |-> FormatTeam(Unwrap(overtakee)),
             overtakee_speed |-> Unwrap(overtakee_speed),
             overtakee_tyre_compound |-> Unwrap(overtakee_status).visual_tyre_compound,
             overtakee_tyre_age |-> UnwrapOr(Unwrap(overtakee_status).tyre_age_laps, U8_MAX),
             for_pos |-> Unwrap(lap).car_position,
             lap |-> Unwrap(lap).current_lap_num,
             track_position |-> F32AsU16(Unwrap(lap).lap_distance),
             time_secs |-> session_time])

\* The lookups are made in this order and the first miss is the error returned.
create_overtake_event(ot, session_time) ==
    LET overtaker == Get(cars, ot.overtaking_vehicle_idx)
        overtaker_status == Get(car_status, ot.overtaking_vehicle_idx)
        overtakee == Get(cars, ot.being_overtaken_vehicle_idx)
        overtakee_status == Get(car_status, ot.being_overtaken_vehicle_idx)
        lap == Get(lap_data, ot.being_overtaken_vehicle_idx)
        get_speed(idx) == UnwrapOr(Get(car_speeds, idx), 0)
    IN
    IF overtaker = None THEN Err("Car data not found")
    ELSE IF overtaker_status = None THEN Err("Car status not found")
    ELSE IF overtakee = None THEN Err("Car data not found")
    ELSE IF overtakee_status = None THEN Err("Car status not found")
    ELSE IF lap = None THEN Err("Lap data not found")
    ELSE Ok([overtaker_name |-> Unwrap(overtaker).name,
             overtaker_team |-> FormatTeam(Unwrap(overtaker)),
             overtaker_speed |-> get_speed(ot.overtaking_vehicle_idx),
             overtaker_tyre_compound |-> Unwrap(overtaker_status).visual_tyre_compound,
             overtaker_tyre_age |-> UnwrapOr(Unwrap(overtaker_status).tyre_age_laps, U8_MAX),
             overtakee_name |-> Unwrap(overtakee).name,
             overtakee_team |-> FormatTeam(Unwrap(overtakee)),
             overtakee_speed |-> get_speed(ot.being_overtaken_vehicle_idx),
             overtakee_tyre_compound |-> Unwrap(overtakee_status).visual_tyre_compound,
             overtakee_tyre_age |-> UnwrapOr(Unwrap(overtakee_status).tyre_age_laps, U8_MAX),
             for_pos |-> Unwrap(lap).car_position,
             lap |-> Unwrap(lap).current_lap_num,
             track_position |-> F32AsU16(Unwrap(lap).lap_distance),
             time_secs |-> session_time])

\* The CSV row of a record: fourteen fields, numbers in decimal.
OvertakeRow(event) ==
    <<event.overtaker_name, event.overtaker_team, ToString(event.overtaker_speed),
      event.overtaker_tyre_compound, ToString(event.overtaker_tyre_age),
      event.overtakee_name, event.overtakee_team, ToString(event.overtakee_speed),
      event.overtakee_tyre_compound, ToString(event.overtakee_tyre_age),
      ToString(event.for_pos), ToString(event.lap), ToString(event.track_position),
      ToString(event.time_secs)>>

\* write_overtake_event that leaves the row in the buffer.
write_overtake_event_without_flush(event, io) ==
    IF IsSome(csv_writer)
    THEN Outcome([State EXCEPT !.csv_writer =
                      Some(WriterWriteRecord(Unwrap(csv_writer), OvertakeRow(event)))],
                 "Ok", <<>>)
    ELSE Outcome(State, "Ok", <<>>)

\* write_record into the buffer, then flush.
write_overtake_event(event, io) ==
    IF IsSome(csv_writer)
    THEN LET flushed ==
                 WriterFlush(WriterWriteRecord(Unwrap(csv_writer), OvertakeRow(event)),
                             files, io)
         IN Outcome([State EXCEPT !.csv_writer = Some(flushed.writer),
                                  !.files = flushed.files],
                    IF flushed.ok THEN "Ok" ELSE "IoError", <<>>)
    ELSE Outcome(State, "Ok", <<>>)

\* handle_overtake without its early return.
handle_overtake_without_guard(event, io) ==
    LET overtake_event == create_overtake_event(event, event.session_time) IN
    IF event.event = "Overtake"
    THEN IF overtake_event.ok
         THEN write_overtake_event(Unwrap(overtake_event.value), io)
         ELSE Outcome(State, overtake_event.err, <<>>)
    ELSE Outcome(State, "Ok", <<>>)

handle_overtake(event, io) ==
    LET overtake_event == create_overtake_event(event, event.session_time) IN
    IF csv_writer = None \/ cars = <<>> THEN Outcome(State, "Ok", <<>>)
    ELSE IF event.event = "Overtake"
    THEN IF overtake_event.ok
         THEN write_overtake_event(Unwrap(overtake_event.value), io)
         ELSE Outcome(State, overtake_event.err, <<>>)
    ELSE Outcome(State, "Ok", <<>>)

\* classification_rows that joins the payload with the roster read backwards.
classification_rows_joined_in_reverse(fc, n) ==
    [i \in 1..n |->
        <<ToString(fc.final_classifications[i].position),
          cars[n + 1 - i].name,
          FormatTeam(cars[n + 1 - i]),
          ToString(fc.final_classifications[i].grid_position),
          ToString(fc.final_classifications[i].best_lap_time),
          ToString(fc.final_classifications[i].total_race_time),
          ToString(fc.final_classifications[i].num_laps),
          ToString(fc.final_classifications[i].num_pit_stops),
          ToString(fc.final_classifications[i].num_penalties),
          ToString(fc.final_classifications[i].penalties_time),
          fc.final_classifications[i].result_status>>]

\* The rows of the first n classified vehicles, as the loop of lines 133-149
\* writes them: entry i of the payload joined with entry i of the roster.
classification_rows(fc, n) ==
    [i \in 1..n |->
        <<ToString(fc.final_classifications[i].position),
          cars[i].name,
          FormatTeam(cars[i]),
          ToString(fc.final_classifications[i].grid_position),
          ToString(fc.final_classifications[i].best_lap_time),
          ToString(fc.final_classifications[i].total_race_time),
          ToString(fc.final_classifications[i].num_laps),
          ToString(fc.final_classifications[i].num_pit_stops),
          ToString(fc.final_classifications[i].num_penalties),
          ToString(fc.final_classifications[i].penalties_time),
          fc.final_classifications[i].result_status>>]

\* The writer is a local: whichever way the method returns, the writer is dropped,
\* and the drop flushes what the buffer still holds (errors ignored) and closes.
write_final_classification(fc, io_create, io_flush, io_drop) ==
    LET created ==
            create_new_csv_writer(Unwrap(session_info), "Results",
                                  CLASSIFICATION_CSV_HEADERS, files, io_create)
        name == Unwrap(created.writer).name
        taken == IF fc.num_cars <= Len(fc.final_classifications)
                 THEN fc.num_cars ELSE Len(fc.final_classifications)
        joined == IF taken <= Len(cars) THEN taken ELSE Len(cars)
        writer == [Unwrap(created.writer) EXCEPT !.buf = @ \o classification_rows(fc, joined)]
        flushed == WriterFlush(writer, created.files, io_flush)
    IN
    IF session_info = None THEN Outcome(State, "No session info available", <<>>)
    ELSE IF ~created.ok THEN Outcome(State, "IoError", <<>>)
    ELSE IF taken > Len(cars)
    THEN \* cars.get(i) misses after the rows before i went to the buffer
         Outcome([State EXCEPT !.files = WriterDrop(writer, created.files, io_drop)],
                 "Car data not found", <<<<"open", name>>, <<"close", name>>>>)
    ELSE IF ~flushed.ok
    THEN Outcome([State EXCEPT !.files = WriterDrop(writer, created.files, io_drop)],
                 "IoError", <<<<"open", name>>, <<"flush", name>>, <<"close", name>>>>)
    ELSE Outcome([State EXCEPT !.files = flushed.files],
                 "Ok", <<<<"open", name>>, <<"flush", name>>, <<"close", name>>>>)

\* clear, then extend with the speed of every listed vehicle
update_car_speeds(telemetry) ==
    Outcome([State EXCEPT !.car_speeds = [i \in 1..Len(telemetry) |-> telemetry[i].speed]],
            "Ok", <<>>)

\* A roster update that keeps the entries the packet does not list.
set_cars_merging(participants) ==
    Outcome([State EXCEPT !.cars =
                 [i \in 1..(IF Len(participants) > Len(cars)
                            THEN Len(participants) ELSE Len(cars)) |->
                      IF i <= Len(participants) THEN participants[i] ELSE cars[i]]],
            "Ok", <<>>)

\* The packet loop assigns the public cache fields directly.
set_cars(participants) == Outcome([State EXCEPT !.cars = participants], "Ok", <<>>)
set_car_status(car_status_data) ==
    Outcome([State EXCEPT !.car_status = car_status_data], "Ok", <<>>)
set_lap_data(lap) == Outcome([State EXCEPT !.lap_data = lap], "Ok", <<>>)

(***************************************************************************)
(* Actions: one per packet kind.  Each takes the set its packet is drawn   *)
(* from and leaves the state the method leaves.                            *)
(***************************************************************************)
Becomes(st) ==
    /\ session_info' = st.session_info
    /\ session_uid' = st.session_uid
    /\ cars' = st.cars
    /\ car_status' = st.car_status
    /\ lap_data' = st.lap_data
    /\ car_speeds' = st.car_speeds
    /\ csv_writer' = st.csv_writer
    /\ files' = st.files

\* Rows of an open event log, header included, on disk and buffered.
LogRows(w) == Len(files[w.name]) + Len(w.buf)
RoomInLog == IF IsSome(csv_writer) THEN LogRows(Unwrap(csv_writer)) <= MaxRows ELSE TRUE

Init ==
    /\ session_info = new.session_info
    /\ session_uid = new.session_uid
    /\ cars = new.cars
    /\ car_status = new.car_status
    /\ lap_data = new.lap_data
    /\ car_speeds = new.car_speeds
    /\ csv_writer = new.csv_writer
    /\ files = new.files
    /\ running = "running"

SessionPacket(announcements) ==
    \E session_data \in announcements, io_flush \in IoOutcomes, io_create \in IoOutcomes :
        /\ Becomes(update_session(session_data, io_flush, io_create).st)
        /\ UNCHANGED running

EventPacket(events) ==
    \E event \in events, io \in IoOutcomes :
        /\ RoomInLog
        /\ Becomes(handle_overtake(event, io).st)
        /\ UNCHANGED running

ParticipantsPacket(packets) ==
    \E participants \in packets :
        /\ Becomes(set_cars(participants).st)
        /\ UNCHANGED running

CarStatusPacket(packets) ==
    \E car_status_data \in packets :
        /\ Becomes(set_car_status(car_status_data).st)
        /\ UNCHANGED running

LapDataPacket(packets) ==
    \E lap \in packets :
        /\ Becomes(set_lap_data(lap).st)
        /\ UNCHANGED running

CarTelemetryPacket(packets) ==
    \E telemetry \in packets :
        /\ Becomes(update_car_speeds(telemetry).st)
        /\ UNCHANGED running

FinalClassificationPacket(packets) ==
    \E fc \in packets, io_create \in IoOutcomes, io_flush \in IoOutcomes,
       io_drop \in IoOutcomes :
        /\ Becomes(write_final_classification(fc, io_create, io_flush, io_drop).st)
        /\ UNCHANGED running

(***************************************************************************)
(* Spec: the sink lifecycle.  Every announcement and every I/O outcome,    *)
(* with roster, status and lap packets that list the whole grid and        *)
(* overtakes of vehicle 1 by vehicle 0.  Telemetry packets, which only     *)
(* change the speed columns of a row, are left to CorrelatorSpec.          *)
(***************************************************************************)
FullGrid(packets) == {p \in packets : Len(p) = MaxCars}
GridOvertakes ==
    {e \in Overtakes : e.overtaking_vehicle_idx = 0 /\ e.being_overtaken_vehicle_idx = 1}

Next ==
    \/ SessionPacket(PacketSessionData)
    \/ EventPacket(GridOvertakes \cup OtherEvents)
    \/ ParticipantsPacket(FullGrid(ParticipantsPackets))
    \/ CarStatusPacket(FullGrid(CarStatusPackets))
    \/ LapDataPacket(FullGrid(LapDataPackets))

Spec == Init /\ [][Next]_vars

(***************************************************************************)
(* CorrelatorSpec: the overtake correlator.  Every cache packet, within    *)
(* the race session 1; the signals that arrive are the overtakes by        *)
(* vehicle 0 of every index, and the events that are no overtake.          *)
(***************************************************************************)
RaceAnnouncements == {a \in PacketSessionData : a.session_uid = 1 /\ a.rule_set = "Race"}
CorrelatorOvertakes == {e \in Overtakes : e.overtaking_vehicle_idx = 0}

CorrelatorNext ==
    \/ SessionPacket(RaceAnnouncements)
    \/ EventPacket(CorrelatorOvertakes \cup OtherEvents)
    \/ ParticipantsPacket(ParticipantsPackets)
    \/ CarStatusPacket(CarStatusPackets)
    \/ LapDataPacket(LapDataPackets)
    \/ CarTelemetryPacket(CarTelemetryPackets)

CorrelatorSpec == Init /\ [][CorrelatorNext]_vars

(***************************************************************************)
(* ReportSpec: the final classification report.  Every roster packet and   *)
(* every declared vehicle count, with the announcements of a race and of   *)
(* a qualifying session 1 and of a race session 2.                         *)
(***************************************************************************)
ReportAnnouncements ==
    {a \in PacketSessionData :
        a.session_uid = 1 \/ (a.session_uid = 2 /\ a.rule_set = "Race")}
ReportClassifications == {fc \in PacketFinalClassificationData : fc.session_uid = 1}

ReportNext ==
    \/ SessionPacket(ReportAnnouncements)
    \/ ParticipantsPacket(ParticipantsPackets)
    \/ FinalClassificationPacket(ReportClassifications)

ReportSpec == Init /\ [][ReportNext]_vars

(***************************************************************************)
(* src/main.rs : the packet loop of main, which handles every packet kind  *)
(* inline.  An arm is an operator that gives the state it leaves and, as   *)
(* its result, where control goes: "continue" (the next iteration),        *)
(* "return" (a `?` left main with the error) or "panic" (an unwrap or      *)
(* expect failed).  Leaving main drops csv_writer.                         *)
(***************************************************************************)
\* main is left with `how`; the unwinding drops the writer, if any.
Leave(st, how, io_drop) ==
    Outcome([st EXCEPT !.csv_writer = None,
                       !.files = IF IsSome(st.csv_writer)
                                 THEN WriterDrop(Unwrap(st.csv_writer), st.files, io_drop)
                                 ELSE st.files],
            how, <<>>)

main_overtake_headers ==
    <<"Overtaker", "Overtaker Team", "Overtaker Speed", "Overtaker Tyre Compound",
      "Overtaker Tyre Age", "Overtakee", "Overtakee Team", "Overtakee Speed",
      "Overtakee Tyre Compound", "Overtakee Tyre Age", "For Position", "Lap",
      "Track Position", "Sessiontime">>

main_classification_headers ==
    <<"Position", "Driver", "Team", "Grid Position", "Fastest Lap Time [ms]",
      "Total Time [ms]">>

\* Packet::Session
main_session(sp, io_flush, io_create, io_drop) ==
    LET st1 == [State EXCEPT !.session_info = Some(sp)]
        rotate == IsSome(csv_writer) /\ session_uid # sp.session_uid
        flushed ==
            IF rotate
            THEN WriterFlush(Unwrap(csv_writer), files, io_flush)
            ELSE [ok |-> TRUE, writer |-> None, files |-> files]
        \* csv_writer = None: the flushed writer is dropped
        st2 == IF rotate
               THEN [st1 EXCEPT !.csv_writer = None, !.files = flushed.files]
               ELSE st1
        st3 == [st2 EXCEPT !.session_uid = sp.session_uid]
        name == FileName(sp, "Events")
    IN
    IF ~flushed.ok THEN Leave(st1, "return", io_drop)
    ELSE IF st2.csv_writer = None
    THEN IF io_create = "fail"
         THEN Leave(st3, "panic", io_drop)
         ELSE Outcome([st3 EXCEPT !.csv_writer =
                                      Some([name |-> name, buf |-> <<main_overtake_headers>>]),
                                  !.files = FileCreate(st2.files, name)],
                      "continue", <<>>)
    ELSE Outcome(st2, "continue", <<>>)

\* The record of lines 120-149, as the row of lines 153-168.
main_overtake_row(ot, session_time) ==
    LET overtaker == cars[ot.overtaking_vehicle_idx + 1]
        overtaker_car_status == car_status[ot.overtaking_vehicle_idx + 1]
        being_overtaken == cars[ot.being_overtaken_vehicle_idx + 1]
        being_overtaken_car_status == car_status[ot.being_overtaken_vehicle_idx + 1]
        lap == lap_data[ot.being_overtaken_vehicle_idx + 1]
    IN
    <<overtaker.name,
      overtaker.team,
      ToString(UnwrapOr(Get(car_speeds, ot.overtaking_vehicle_idx), 0)),
      overtaker_car_status.visual_tyre_compound,
      ToString(UnwrapOr(overtaker_car_status.tyre_age_laps, U8_MAX)),
      being_overtaken.name,
      being_overtaken.team,
      ToString(UnwrapOr(Get(car_speeds, ot.being_overtaken_vehicle_idx), 0)),
      being_overtaken_car_status.visual_tyre_compound,
      ToString(UnwrapOr(being_overtaken_car_status.tyre_age_laps, U8_MAX)),
      ToString(lap.car_position),
      ToString(lap.current_lap_num),
      ToString(F32AsU16(lap.lap_distance)),
      ToString(session_time \div 1000)>>

\* Packet::Event
main_event(event, io, io_drop) ==
    IF cars = <<>> THEN Outcome(State, "continue", <<>>)
    ELSE IF event.event # "Overtake" THEN Outcome(State, "continue", <<>>)
    ELSE IF \/ Get(cars, event.overtaking_vehicle_idx) = None
            \/ Get(car_status, event.overtaking_vehicle_idx) = None
            \/ Get(cars, event.being_overtaken_vehicle_idx) = None
            \/ Get(car_status, event.being_overtaken_vehicle_idx) = None
    THEN Leave(State, "panic", io_drop)
    ELSE IF Get(lap_data, event.being_overtaken_vehicle_idx) = None
    THEN Outcome(State, "continue", <<>>)
    ELSE IF csv_writer = None THEN Outcome(State, "continue", <<>>)
    ELSE LET written ==
                 WriterWriteRecord(Unwrap(csv_writer),
                                   main_overtake_row(event, event.session_time))
             flushed == WriterFlush(written, files, io)
         IN IF flushed.ok
            THEN Outcome([State EXCEPT !.csv_writer = Some(flushed.writer),
                                       !.files = flushed.files],
                         "continue", <<>>)
            ELSE Leave([State EXCEPT !.csv_writer = Some(written)], "return", io_drop)

\* Packet::CarTelemetry: the speeds of the listed vehicles are overwritten or
\* pushed, those of the others stay.
main_car_telemetry(ctp) ==
    Outcome([State EXCEPT !.car_speeds =
                 [i \in 1..(IF Len(ctp) > Len(car_speeds) THEN Len(ctp) ELSE Len(car_speeds)) |->
                      IF i <= Len(ctp) THEN ctp[i].speed ELSE car_speeds[i]]],
            "continue", <<>>)

\* The rows written for the first n classified vehicles.
main_classification_rows(fc, n) ==
    [i \in 1..n |->
        <<ToString(fc.final_classifications[i].position),
          cars[i].name,
          cars[i].team,
          ToString(fc.final_classifications[i].grid_position),
          ToString(fc.final_classifications[i].best_lap_time),
          ToString(fc.final_classifications[i].total_race_time)>>]

\* Packet::FinalClassification.  The writer is a local of the arm: it is dropped
\* at the end of the arm, and by the unwinding when cars.get(i).unwrap() panics.
main_final_classification(fc, io_create, io_drop) ==
    LET name == FileName([Unwrap(session_info) EXCEPT !.session_uid = fc.session_uid],
                         "Results")
        taken == IF fc.num_cars <= Len(fc.final_classifications)
                 THEN fc.num_cars ELSE Len(fc.final_classifications)
        listed == IF taken <= Len(cars) THEN taken ELSE Len(cars)
        writer == [name |-> name,
                   buf |-> <<main_classification_headers>>
                               \o main_classification_rows(fc, listed)]
        st1 == [State EXCEPT !.files = WriterDrop(writer, FileCreate(files, name), io_drop)]
    IN
    IF session_info = None THEN Leave(State, "panic", io_drop)
    ELSE IF io_create = "fail" THEN Leave(State, "return", io_drop)
    ELSE IF taken > Len(cars) THEN Leave(st1, "panic", io_drop)
    ELSE Outcome(st1, "continue", <<>>)

Goes(result) ==
    running' = CASE result = "continue" -> "running"
                 [] result = "return" -> "returned"
                 [] OTHER -> "panicked"

main_Session(announcements) ==
    \E sp \in announcements, io_flush \in IoOutcomes, io_create \in IoOutcomes,
       io_drop \in IoOutcomes :
        /\ running = "running"
        /\ Becomes(main_session(sp, io_flush, io_create, io_drop).st)
        /\ Goes(main_session(sp, io_flush, io_create, io_drop).result)

main_Participants(packets) ==
    \E pp \in packets :
        /\ running = "running"
        /\ Becomes([State EXCEPT !.cars = pp])
        /\ UNCHANGED running

main_Event(events) ==
    \E event \in events, io \in IoOutcomes, io_drop \in IoOutcomes :
        /\ running = "running"
        /\ RoomInLog
        /\ Becomes(main_event(event, io, io_drop).st)
        /\ Goes(main_event(event, io, io_drop).result)

main_CarTelemetry(packets) ==
    \E ctp \in packets :
        /\ running = "running"
        /\ Becomes(main_car_telemetry(ctp).st)
        /\ UNCHANGED running

main_CarStatus(packets) ==
    \E cs \in packets :
        /\ running = "running"
        /\ Becomes([State EXCEPT !.car_status = cs])
        /\ UNCHANGED running

main_LapData(packets) ==
    \E lp \in packets :
        /\ running = "running"
        /\ Becomes([State EXCEPT !.lap_data = lp])
        /\ UNCHANGED running

main_FinalClassification(packets) ==
    \E fc \in packets, io_create \in IoOutcomes, io_drop \in IoOutcomes :
        /\ running = "running"
        /\ Becomes(main_final_classification(fc, io_create, io_drop).st)
        /\ Goes(main_final_classification(fc, io_create, io_drop).result)

\* `_ => {}`: a packet of any other kind
main_OtherPacket ==
    /\ running = "running"
    /\ UNCHANGED vars

\* `Err(e) => println!(..)`: a packet that could not be read
main_PacketError ==
    /\ running = "running"
    /\ UNCHANGED vars

(***************************************************************************)
(* MainSpec: the loop of main over every packet kind.  The announcements   *)
(* are those of the race sessions 0 and 1 and of a qualifying session 1;   *)
(* the overtakes are 0 passing 1 and 0 passing the index after the grid;   *)
(* the final classification is that of session 1 and lists the whole grid. *)
(***************************************************************************)
MainAnnouncements ==
    {a \in PacketSessionData : a.session_uid = 1 \/ (a.session_uid = 0 /\ a.rule_set = "Race")}
MainOvertakes ==
    {e \in Overtakes : e.overtaking_vehicle_idx = 0 /\ e.being_overtaken_vehicle_idx \in {1, MaxCars}}
MainClassifications ==
    {fc \in PacketFinalClassificationData : fc.session_uid = 1 /\ fc.num_cars = MaxCars}

MainNext ==
    \/ main_Session(MainAnnouncements)
    \/ main_Participants(ParticipantsPackets)
    \/ main_Event(MainOvertakes \cup OtherEvents)
    \/ main_CarTelemetry(CarTelemetryPackets)
    \/ main_CarStatus(CarStatusPackets)
    \/ main_LapData(LapDataPackets)
    \/ main_FinalClassification(MainClassifications)
    \/ main_OtherPacket
    \/ main_PacketError

MainSpec == Init /\ [][MainNext]_vars

(***************************************************************************)
(* Claims about the sink lifecycle (Spec).                                 *)
(***************************************************************************)
KindsAt(events, kinds) == {i \in 1..Len(events) : events[i][1] \in kinds}

\* Sinks open after the first k sink events of a call that started in this state.
OpenSinks(events, k) ==
    (IF is_logging_enabled THEN 1 ELSE 0)
        + Cardinality({i \in KindsAt(events, {"open"}) : i <= k})
        - Cardinality({i \in KindsAt(events, {"close"}) : i <= k})

\* C1: with every I/O operation succeeding, update_session opens an event-log
\* sink exactly when the announced identifier differs from the tracked one and
\* the session is a race; the previous sink is flushed and closed before the
\* new one opens; and after a non-race announcement with a new identifier no
\* sink is open.
C1_SinkOpenedForNewRaceSessionOnly ==
    \A a \in PacketSessionData :
        LET r == update_session(a, "ok", "ok") IN
        /\ (KindsAt(r.events, {"open"}) # {})
               <=> (a.session_uid # session_uid /\ a.rule_set = "Race")
        /\ \A i \in KindsAt(r.events, {"open"}), j \in KindsAt(r.events, {"flush", "close"}) :
               j < i
        /\ (a.session_uid # session_uid /\ a.rule_set # "Race") => r.st.csv_writer = None

\* C2: at most one event-log sink is open at every instant, inside
\* update_session too: when a new identifier arrives while a sink is open, that
\* sink is flushed and closed before the new one is opened.
C2_AtMostOneSinkOpen ==
    \A a \in PacketSessionData, io_flush \in IoOutcomes, io_create \in IoOutcomes :
        LET r == update_session(a, io_flush, io_create) IN
        /\ \A k \in 0..Len(r.events) : OpenSinks(r.events, k) <= 1
        /\ \A i \in KindsAt(r.events, {"open"}), j \in KindsAt(r.events, {"flush", "close"}) :
               j < i

\* C3: update_session with the tracked identifier makes no sink transition: it
\* returns success, no sink is flushed, opened or closed, no file changes, and
\* the state it leaves differs from the one it found in session_info alone,
\* which holds the announcement.
C3_SameIdentifierNoSinkTransition ==
    \A a \in PacketSessionData, io_flush \in IoOutcomes, io_create \in IoOutcomes :
        a.session_uid = session_uid =>
            LET r == update_session(a, io_flush, io_create) IN
            /\ r.result = "Ok"
            /\ r.events = <<>>
            /\ r.st = [State EXCEPT !.session_info = Some(a)]

\* An open sink that holds a flushed data row, while the session context is a
\* later announcement of the tracked identifier (its kind is not the race kind
\* the sink was opened for).
C3_Witness ==
    /\ is_logging_enabled
    /\ Len(files[Unwrap(csv_writer).name]) >= 2
    /\ IsSome(session_info)
    /\ Unwrap(session_info).session_uid = session_uid
    /\ Unwrap(session_info).rule_set # "Race"

\* C4: when creating the sink of a newly announced race session fails,
\* update_session returns an error and logging is disabled for that session
\* (no sink is open), also when a sink of the previous session was open.
C4_CreationFailureDisablesLogging ==
    \A a \in PacketSessionData :
        (a.session_uid # session_uid /\ a.rule_set = "Race") =>
            LET r == update_session(a, "ok", "fail") IN
            /\ r.result = "IoError"
            /\ r.st.session_uid = a.session_uid
            /\ r.st.csv_writer = None

\* The rows of a log, header included: those on disk, then those in the buffer
\* of the writer that holds it.
Content(st, name) ==
    st.files[name]
        \o (IF IsSome(st.csv_writer) /\ Unwrap(st.csv_writer).name = name
            THEN Unwrap(st.csv_writer).buf ELSE <<>>)

\* The names an event log of session uid can have.
EventLogsOf(uid) == {FileName(a, "Events") : a \in {b \in PacketSessionData : b.session_uid = uid}}

\* The roster, status and lap-progress lookups create_overtake_event makes all hit.
LookupsHit(e) ==
    /\ IsSome(Get(cars, e.overtaking_vehicle_idx))
    /\ IsSome(Get(car_status, e.overtaking_vehicle_idx))
    /\ IsSome(Get(cars, e.being_overtaken_vehicle_idx))
    /\ IsSome(Get(car_status, e.being_overtaken_vehicle_idx))
    /\ IsSome(Get(lap_data, e.being_overtaken_vehicle_idx))

\* C5: the rows of each event log are exactly the correlated overtake signals
\* that arrived while the log's session was tracked, once each and in arrival
\* order.  Step by step: a correlated signal appends its one row to the log of
\* the tracked session and to no other, and an announcement (a rotation) keeps
\* the rows of every log.
C5_LogHoldsTrackedSessionsOvertakes ==
    /\ \A e \in Overtakes, io \in IoOutcomes :
           (is_logging_enabled /\ cars # <<>> /\ LookupsHit(e)) =>
               LET r == handle_overtake(e, io)
                   name == Unwrap(csv_writer).name
               IN /\ name \in EventLogsOf(session_uid)
                  /\ Len(Content(r.st, name)) = Len(Content(State, name)) + 1
                  /\ \A n \in DOMAIN files \ {name} : Content(r.st, n) = Content(State, n)
    /\ \A a \in PacketSessionData, io_flush \in IoOutcomes, io_create \in IoOutcomes :
           LET r == update_session(a, io_flush, io_create) IN
           \A n \in DOMAIN files :
               SubSeq(Content(r.st, n), 2, Len(Content(r.st, n)))
                   = SubSeq(Content(State, n), 2, Len(Content(State, n)))

(***************************************************************************)
(* Claims about the overtake correlator (CorrelatorSpec).                  *)
(***************************************************************************)
RosterOrStatusMiss(e) ==
    \/ Get(cars, e.overtaking_vehicle_idx) = None
    \/ Get(car_status, e.overtaking_vehicle_idx) = None
    \/ Get(cars, e.being_overtaken_vehicle_idx) = None
    \/ Get(car_status, e.being_overtaken_vehicle_idx) = None

CorrelationErrors == {"Car data not found", "Car status not found", "Lap data not found"}

\* C6 as claimed: for every overtake signal with a referenced index absent from
\* the roster or the status cache, handle_overtake reports an error value,
\* writes no row and leaves caches and sink unchanged.
C6_MissAlwaysReportsError ==
    \A e \in Overtakes, io \in IoOutcomes :
        RosterOrStatusMiss(e) =>
            LET r == handle_overtake(e, io) IN
            /\ r.result \in CorrelationErrors
            /\ r.st = State

\* C6 as amended: such a signal never writes a row and leaves caches and sink
\* unchanged; it reports an error value when a sink is open and the roster is
\* not empty, and returns success (the no-op of C9) otherwise.
C6_MissDropsEvent ==
    \A e \in Overtakes, io \in IoOutcomes :
        RosterOrStatusMiss(e) =>
            LET r == handle_overtake(e, io) IN
            /\ r.st = State
            /\ IF is_logging_enabled /\ cars # <<>>
               THEN r.result \in {"Car data not found", "Car status not found"}
               ELSE r.result = "Ok"

\* A sink with a flushed header is open, the roster lists both vehicles of a
\* signal, the status of one is missing, and the call returns that error.
C6_Witness ==
    /\ is_logging_enabled
    /\ Len(files[Unwrap(csv_writer).name]) >= 1
    /\ \E e \in Overtakes :
           /\ IsSome(Get(cars, e.overtaking_vehicle_idx))
           /\ IsSome(Get(cars, e.being_overtaken_vehicle_idx))
           /\ RosterOrStatusMiss(e)
           /\ handle_overtake(e, "ok").result = "Car status not found"

\* C7 as claimed: a lap-progress miss at either referenced index drops the
\* event: no row is written.
C7_LapMissAtEitherIndexDrops ==
    \A e \in Overtakes, io \in IoOutcomes :
        (Get(lap_data, e.overtaking_vehicle_idx) = None
            \/ Get(lap_data, e.being_overtaken_vehicle_idx) = None) =>
            handle_overtake(e, io).st = State

\* C7 as amended: a lap-progress miss at the overtaken index drops the event
\* (no row is written, and an error is returned once the sink is open and the
\* roster not empty); the lap-progress entry of the overtaking vehicle is not
\* looked up, so a signal whose other lookups hit is written with or without it.
C7_LapMissAtOvertakenIndexDrops ==
    \A e \in Overtakes, io \in IoOutcomes :
        LET r == handle_overtake(e, io) IN
        /\ Get(lap_data, e.being_overtaken_vehicle_idx) = None =>
               /\ r.st = State
               /\ (is_logging_enabled /\ cars # <<>>) => r.result \in CorrelationErrors
        /\ (is_logging_enabled /\ LookupsHit(e)) =>
               /\ r.result \notin CorrelationErrors
               /\ Content(r.st, Unwrap(csv_writer).name)
                      = Append(Content(State, Unwrap(csv_writer).name),
                               OvertakeRow(Unwrap(create_overtake_event(e, e.session_time).value)))

\* With a sink open, one signal is dropped for the lap-progress miss of its
\* overtaken vehicle alone, and another, whose overtaking vehicle has no
\* lap-progress entry, is written.
C7_Witness ==
    /\ is_logging_enabled
    /\ \E e \in Overtakes :
           /\ ~RosterOrStatusMiss(e)
           /\ handle_overtake(e, "ok").result = "Lap data not found"
    /\ \E e \in Overtakes :
           /\ Get(lap_data, e.overtaking_vehicle_idx) = None
           /\ handle_overtake(e, "ok").result = "Ok"
           /\ handle_overtake(e, "ok").st # State

SpeedMiss(e) ==
    \/ Get(car_speeds, e.overtaking_vehicle_idx) = None
    \/ Get(car_speeds, e.being_overtaken_vehicle_idx) = None

\* The speed column a row must show for vehicle idx: the cached speed, or 0.
SpeedColumn(idx) ==
    IF idx + 1 <= Len(car_speeds) THEN ToString(car_speeds[idx + 1]) ELSE "0"

\* C8: when the roster, status and lap-progress lookups of a signal are made
\* and hit while the speed cache lacks a referenced index, the record is still
\* produced and written: one row is appended whose speed column for that index
\* is 0 (and the cached speed for the other), no correlation error is reported,
\* and the call returns success whenever the flush of the row succeeds.
C8_MissingSpeedIsZero ==
    \A e \in Overtakes, io \in IoOutcomes :
        (is_logging_enabled /\ cars # <<>> /\ LookupsHit(e) /\ SpeedMiss(e)) =>
            LET r == handle_overtake(e, io)
                name == Unwrap(csv_writer).name
                log == Content(r.st, name)
            IN /\ r.result = (IF io = "ok" THEN "Ok" ELSE "IoError")
               /\ Len(log) = Len(Content(State, name)) + 1
               /\ log[Len(log)][3] = SpeedColumn(e.overtaking_vehicle_idx)
               /\ log[Len(log)][8] = SpeedColumn(e.being_overtaken_vehicle_idx)
               /\ Get(car_speeds, e.overtaking_vehicle_idx) = None => log[Len(log)][3] = "0"
               /\ Get(car_speeds, e.being_overtaken_vehicle_idx) = None => log[Len(log)][8] = "0"
               /\ io = "ok" => r.st.files[name] = log

\* A row on disk whose overtakee speed is the zero sentinel while its overtaker
\* speed was cached.
C8_Witness ==
    /\ is_logging_enabled
    /\ \E i \in 2..Len(files[Unwrap(csv_writer).name]) :
           /\ files[Unwrap(csv_writer).name][i][3] # "0"
           /\ files[Unwrap(csv_writer).name][i][8] = "0"

\* C9: with no event sink open, or with an empty roster cache, handle_overtake
\* returns success and leaves the whole state (session identity, caches, sink,
\* files) as it found it, whatever the event and the indices it references.
C9_NoSinkOrNoRosterIsNoOp ==
    \A e \in PacketEventData, io \in IoOutcomes :
        (~is_logging_enabled \/ cars = <<>>) =>
            LET r == handle_overtake(e, io) IN
            /\ r.result = "Ok"
            /\ r.st = State

\* No sink is open although a race session is tracked (its sink could not be
\* created), and a signal whose lookups would all hit is ignored.
C9_Witness ==
    /\ ~is_logging_enabled
    /\ session_uid = 1
    /\ \E e \in Overtakes :
           /\ LookupsHit(e)
           /\ e.overtaking_vehicle_idx # e.being_overtaken_vehicle_idx
           /\ handle_overtake(e, "ok").st = State

(***************************************************************************)
(* Claims about the record of an overtake (MainSpec).                      *)
(***************************************************************************)
\* The row of the record the signal e describes over the caches of this state:
\* overtaker columns from index e.overtaking_vehicle_idx, overtakee columns and
\* the lap-progress columns from index e.being_overtaken_vehicle_idx, the team
\* as "name (race number)", a missing speed as 0, the timestamp as received.
C10_Row(e) ==
    LET a == e.overtaking_vehicle_idx + 1
        b == e.being_overtaken_vehicle_idx + 1
    IN
    <<cars[a].name,
      cars[a].team \o " (" \o ToString(cars[a].race_number) \o ")",
      IF a <= Len(car_speeds) THEN ToString(car_speeds[a]) ELSE "0",
      car_status[a].visual_tyre_compound,
      IF car_status[a].tyre_age_laps = None
      THEN ToString(U8_MAX) ELSE ToString(car_status[a].tyre_age_laps[1]),
      cars[b].name,
      cars[b].team \o " (" \o ToString(cars[b].race_number) \o ")",
      IF b <= Len(car_speeds) THEN ToString(car_speeds[b]) ELSE "0",
      car_status[b].visual_tyre_compound,
      IF car_status[b].tyre_age_laps = None
      THEN ToString(U8_MAX) ELSE ToString(car_status[b].tyre_age_laps[1]),
      ToString(lap_data[b].car_position),
      ToString(lap_data[b].current_lap_num),
      ToString(F32AsU16(lap_data[b].lap_distance)),
      ToString(e.session_time)>>

\* C10: the record of a correlated overtake is composed from the caches as they
\* are when the signal is processed, overtaker fields from the overtaking index,
\* overtakee fields and For Position, Lap and Track Position from the overtaken
\* index, and its time field is the signal's session timestamp unchanged; this
\* is the row that create_overtake_event and handle_overtake (session.rs) and
\* the event arm of main (main.rs) append to the open event log.
C10_RecordComposedFromCaches ==
    \A e \in Overtakes :
        (is_logging_enabled /\ LookupsHit(e)) =>
            LET name == Unwrap(csv_writer).name IN
            /\ create_overtake_event(e, e.session_time).ok
            /\ OvertakeRow(Unwrap(create_overtake_event(e, e.session_time).value)) = C10_Row(e)
            /\ Content(handle_overtake(e, "ok").st, name)
                   = Append(Content(State, name), C10_Row(e))
            /\ Content(main_event(e, "ok", "ok").st, name)
                   = Append(Content(State, name), C10_Row(e))

(***************************************************************************)
(* Claims about flushing (Spec).                                           *)
(***************************************************************************)
\* C11: whenever handle_overtake returns success after writing a record, the
\* sink holds no unflushed row: the rows the log had on disk, those its buffer
\* still held (the header, records of earlier calls whose flush failed) and the
\* new record are all on disk, in that order.
C11_SuccessLeavesNothingUnflushed ==
    \A e \in PacketEventData, io \in IoOutcomes :
        LET r == handle_overtake(e, io) IN
        (r.result = "Ok" /\ r.st # State) =>
            /\ IsSome(r.st.csv_writer)
            /\ Unwrap(r.st.csv_writer).buf = <<>>
            /\ Unwrap(r.st.csv_writer).name = Unwrap(csv_writer).name
            /\ Len(r.st.files[Unwrap(csv_writer).name])
                   = Len(Content(State, Unwrap(csv_writer).name)) + 1
            /\ SubSeq(r.st.files[Unwrap(csv_writer).name], 1,
                      Len(Content(State, Unwrap(csv_writer).name)))
                   = Content(State, Unwrap(csv_writer).name)
            /\ \A n \in DOMAIN files \ {Unwrap(csv_writer).name} : r.st.files[n] = files[n]

\* The open sink holds the header and a record whose flush failed, and a
\* signal that correlates is written with success: all three rows reach the disk.
C11_Witness ==
    /\ is_logging_enabled
    /\ Len(Unwrap(csv_writer).buf) >= 2
    /\ \E e \in Overtakes :
           /\ handle_overtake(e, "ok").result = "Ok"
           /\ Len(handle_overtake(e, "ok").st.files[Unwrap(csv_writer).name])
                  = Len(files[Unwrap(csv_writer).name]) + Len(Unwrap(csv_writer).buf) + 1

(***************************************************************************)
(* Claims about the final classification report (ReportSpec, MainSpec).    *)
(***************************************************************************)
\* The number of payload entries a report iterates over.
Declared(fc) ==
    IF fc.num_cars <= Len(fc.final_classifications)
    THEN fc.num_cars ELSE Len(fc.final_classifications)

\* The name of the results file a report writes from this state.
ResultsName == FileName(Unwrap(session_info), "Results")

\* C12: when the payload lists, within its declared vehicle count, an index that
\* the roster cache lacks, write_final_classification fails with the report-join
\* error and leaves no results file that holds the header and only a prefix of
\* the declared rows.
C12_JoinFailureLeavesNoPartialReport ==
    \A fc \in PacketFinalClassificationData, io_flush \in IoOutcomes, io_drop \in IoOutcomes :
        (IsSome(session_info) /\ Declared(fc) > Len(cars)) =>
            LET r == write_final_classification(fc, "ok", io_flush, io_drop) IN
            /\ r.result = "Car data not found"
            /\ ResultsName \in DOMAIN r.st.files =>
                   ~ /\ Len(r.st.files[ResultsName]) >= 1
                     /\ r.st.files[ResultsName][1] = CLASSIFICATION_CSV_HEADERS
                     /\ Len(r.st.files[ResultsName]) < 1 + Declared(fc)

\* C13: a results payload processed before any session announcement fails with
\* the no-session-context error and creates no results sink, and only that call
\* fails: in session.rs the method returns the error and leaves the state as it
\* was, and the loop of main (main.rs) goes on to the next packet.
C13_NoSessionContextFailsThatCallOnly ==
    \A fc \in PacketFinalClassificationData, io_create \in IoOutcomes,
       io_flush \in IoOutcomes, io_drop \in IoOutcomes :
        session_info = None =>
            /\ write_final_classification(fc, io_create, io_flush, io_drop).result
                   = "No session info available"
            /\ write_final_classification(fc, io_create, io_flush, io_drop).events = <<>>
            /\ write_final_classification(fc, io_create, io_flush, io_drop).st = State
            /\ main_final_classification(fc, io_create, io_drop).result = "continue"
            /\ main_final_classification(fc, io_create, io_drop).st.files = files

\* C14: on a successful report the results file holds the header row followed
\* by exactly one row per payload entry of index below min(declared count,
\* payload length), in payload order, entry i joined with roster entry i; the
\* sink was flushed (every row is on disk) and then closed when the call
\* returns, and nothing else changed.
C14_SuccessfulReportContent ==
    \A fc \in PacketFinalClassificationData, io_create \in IoOutcomes,
       io_flush \in IoOutcomes, io_drop \in IoOutcomes :
        LET r == write_final_classification(fc, io_create, io_flush, io_drop)
            rows == r.st.files[ResultsName]
        IN
        r.result = "Ok" =>
            /\ Len(rows) = 1 + Declared(fc)
            /\ rows[1] = CLASSIFICATION_CSV_HEADERS
            /\ \A i \in 1..Declared(fc) :
                   rows[i + 1] =
                       <<ToString(fc.final_classifications[i].position),
                         cars[i].name,
                         cars[i].team \o " (" \o ToString(cars[i].race_number) \o ")",
                         ToString(fc.final_classifications[i].grid_position),
                         ToString(fc.final_classifications[i].best_lap_time),
                         ToString(fc.final_classifications[i].total_race_time),
                         ToString(fc.final_classifications[i].num_laps),
                         ToString(fc.final_classifications[i].num_pit_stops),
                         ToString(fc.final_classifications[i].num_penalties),
                         ToString(fc.final_classifications[i].penalties_time),
                         fc.final_classifications[i].result_status>>
            /\ r.events = <<<<"open", ResultsName>>, <<"flush", ResultsName>>,
                            <<"close", ResultsName>>>>
            /\ r.st = [State EXCEPT !.files = r.st.files]
            /\ \A n \in DOMAIN files \ {ResultsName} : r.st.files[n] = files[n]

\* A results file on disk lists the whole grid of MaxCars vehicles, and a
\* payload that declares one vehicle more than it holds is reported with success.
C14_Witness ==
    /\ IsSome(session_info)
    /\ ResultsName \in DOMAIN files
    /\ Len(files[ResultsName]) = 1 + MaxCars
    /\ files[ResultsName][1 + MaxCars][2] = DriverName(MaxCars - 1)
    /\ \E fc \in PacketFinalClassificationData :
           /\ fc.num_cars > Len(fc.final_classifications)
           /\ write_final_classification(fc, "ok", "ok", "ok").result = "Ok"

\* C15: every report call writes a results sink of its own: the sink it creates
\* does not have the name of a file an earlier call left (in the same session
\* or another), and the files of earlier calls stay as they were.
C15_ReportsAreIndependentSinks ==
    \A fc \in PacketFinalClassificationData, io_flush \in IoOutcomes, io_drop \in IoOutcomes :
        IsSome(session_info) =>
            LET r == write_final_classification(fc, "ok", io_flush, io_drop) IN
            /\ ResultsName \notin DOMAIN files
            /\ \A n \in DOMAIN files : r.st.files[n] = files[n]

(***************************************************************************)
(* Claims about the packet loop (MainSpec).                                *)
(***************************************************************************)
\* C16: no error condition ends the packet loop: whatever packets and I/O
\* outcomes came before (decode errors, correlation misses, failed sink
\* creations and flushes, report-join failures, results before any
\* announcement), the loop is running and takes the next packet.
C16_LoopNeverTerminates == running = "running"

(***************************************************************************)
(* Claims about the caches (CorrelatorSpec, MainSpec).                     *)
(***************************************************************************)
\* C17: a roster update replaces the roster cache by the packet's contents and
\* changes nothing else: every index the packet lacks is absent afterwards,
\* whatever the cache held before.  An absent index is absent for the
\* correlator (an overtake by it, with a sink open and a roster, fails with the
\* roster error) and for the reporter (a report that declares it fails with the
\* join error).
C17_RosterIsReplaced ==
    /\ \A pp \in ParticipantsPackets :
           /\ set_cars(pp).st = [State EXCEPT !.cars = pp]
           /\ \A idx \in VehicleIdx : Get(set_cars(pp).st.cars, idx) = Get(pp, idx)
    /\ \A e \in Overtakes, io \in IoOutcomes :
           (is_logging_enabled /\ cars # <<>> /\ e.overtaking_vehicle_idx >= Len(cars)) =>
               handle_overtake(e, io).result = "Car data not found"
    /\ \A fc \in PacketFinalClassificationData, io_flush \in IoOutcomes, io_drop \in IoOutcomes :
           (IsSome(session_info) /\ Declared(fc) > Len(cars)) =>
               write_final_classification(fc, "ok", io_flush, io_drop).result
                   = "Car data not found"

\* The roster lists vehicle 0 alone, after it listed vehicle 1 as well: the log
\* holds a row in which vehicle 1 was overtaken.
C17_Witness ==
    /\ Len(cars) = 1
    /\ is_logging_enabled
    /\ Len(files[Unwrap(csv_writer).name]) >= 2
    /\ files[Unwrap(csv_writer).name][2][6] = DriverName(1)

\* C18: after a speed update the speed cache is exactly the packet's sequence
\* of speeds, of the packet's length, so an index beyond a shorter packet holds
\* no speed any more; this holds of update_car_speeds (session.rs) and of the
\* telemetry arm of main (main.rs).
C18_SpeedsAreReplaced ==
    \A ctp \in CarTelemetryPackets :
        /\ update_car_speeds(ctp).st
               = [State EXCEPT !.car_speeds = [i \in 1..Len(ctp) |-> ctp[i].speed]]
        /\ main_car_telemetry(ctp).st
               = [State EXCEPT !.car_speeds = [i \in 1..Len(ctp) |-> ctp[i].speed]]
        /\ \A idx \in VehicleIdx :
               idx >= Len(ctp) =>
                   /\ Get(update_car_speeds(ctp).st.car_speeds, idx) = None
                   /\ Get(main_car_telemetry(ctp).st.car_speeds, idx) = None

(***************************************************************************)
(* Claims about the tracked session (Spec).                                *)
(***************************************************************************)
\* No announcement has been taken in yet: the state is as new() left it, but
\* for the caches.
NothingAnnounced == session_info = None /\ session_uid = U64_MIN /\ csv_writer = None

\* C19: the first announcement after startup is a boundary crossing whatever
\* its identifier, 0 included: with I/O succeeding, if it announces a race the
\* event sink of that session is opened and holds the header row.
C19_FirstAnnouncementOpensSink ==
    NothingAnnounced =>
        \A a \in PacketSessionData :
            a.rule_set = "Race" =>
                LET r == update_session(a, "ok", "ok") IN
                /\ r.events = <<<<"open", FileName(a, "Events")>>>>
                /\ IsSome(r.st.csv_writer)
                /\ Content(r.st, FileName(a, "Events")) = <<OVERTAKE_CSV_HEADERS>>
                /\ r.st.session_uid = a.session_uid

\* C20: in every reachable state, also after a failed flush or a failed sink
\* creation inside update_session, an open event sink is the one created for
\* the tracked session identifier, and for a race announcement of it.
C20_OpenSinkBelongsToTrackedSession ==
    is_logging_enabled =>
        \E a \in PacketSessionData :
            /\ a.session_uid = session_uid
            /\ a.rule_set = "Race"
            /\ Unwrap(csv_writer).name = FileName(a, "Events")

\* C21: an overtake row that has been flushed to a session's event log stays
\* in that log through every later step: no packet, and in particular no
\* announcement that opens a sink (sessions A, B, then A again, which derive
\* the same sink name), truncates or overwrites the data rows a log has on disk.
C21_FlushedRowsRemain ==
    [][\A n \in DOMAIN files :
           /\ n \in DOMAIN files'
           /\ \A i \in 2..Len(files[n]) :
                  /\ i <= Len(files'[n])
                  /\ files'[n][i] = files[n][i]]_vars

====
